---- MODULE Spec2Model ----
(***************************************************************************)
(* A model of typit-matrix: the durable sync loop of src/main.rs (main,    *)
(* restore_session, login, sync, persist_sync_token), the auto-join        *)
(* handler on_stripped_member, and the message handler on_room_message of  *)
(* src/message.rs.                                                         *)
(*                                                                         *)
(* The messaging backend is a log of events numbered 1..srvLen; a sync     *)
(* token is a position in that log.  sync_once(token) returns the events   *)
(* after the token and next_batch = the current end of the log.            *)
(***************************************************************************)
EXTENDS Integers, Sequences, FiniteSets

\* ---------------------------------------------------------------- bounds
MaxEvents == 2      \* events the backend produces
MaxCrashes == 1     \* crash-and-restart steps of the process
MaxDamage == 1      \* times the environment deletes or corrupts the record
PipeCap == 2        \* bytes an OS pipe holds before a write to it blocks

\* ---------------------------------------------------------------- values
None == [some |-> FALSE]
Some(x) == [some |-> TRUE, val |-> x]

Creds == {"credA", "credB"}
Events == 1..MaxEvents
Tokens == 0..MaxEvents

\* The session file: absent, unparseable text, or a JSON object.
AbsentFile == [kind |-> "absent"]
CorruptFile == [kind |-> "corrupt"]
JsonFile(obj) == [kind |-> "json", obj |-> obj]

NoResp == [ok |-> FALSE]

VARIABLES
  \* --- the sync engine (src/main.rs)
  file,           \* contents of SESSION_FILE
  srvLen,         \* number of events in the backend's log
  pc,             \* position of main/sync
  clientSession,  \* the client's restored or logged-in MatrixSession
  settingsToken,  \* sync_settings.token
  handlers,       \* TRUE once add_event_handler was called
  resp,           \* the sync response in hand
  ndisp,          \* how many events of resp were dispatched
  observed,       \* per event: how often a handler observed it
  retInit,        \* events returned by an initial sync_once
  retRestart,     \* events returned by an initial sync_once with a restored cursor
  retStream,      \* events returned by a Streaming long-poll
  streamPersisted,\* events of Streaming responses whose cursor was persisted
  pending,        \* cursor of a received response that is not persisted yet
  lastPersist,    \* outcome of the latest persist_sync_token call
  lastReq,        \* the latest sync_once request
  exitCause,      \* why main returned
  crashes,
  damage,
  \* --- on_stripped_member and its join task (src/main.rs)
  ownId,          \* client.user_id()
  room_member,    \* the StrippedRoomMemberEvent handed to the handler
  jpc,            \* position of the handler and of the task it spawns
  spawned,        \* TRUE once tokio::spawn was called
  delay,          \* the task's delay, in seconds
  attempts,       \* room.join() calls made
  sleeps,         \* the durations slept, in order
  \* --- on_room_message (src/message.rs)
  room_state,     \* room.state()
  event,          \* the OriginalSyncRoomMessageEvent handed to the handler
  now,            \* SystemTime::now() at the freshness test, in ms
  mpc,            \* position of the handler
  child,          \* what the spawned compiler does
  buf,            \* the bytes read from the child's pipes
  reply,          \* the reply built and not sent yet
  sends,          \* the room.send calls made, in order
  uploads,        \* the media uploads made, in order
  spawns,         \* compiler processes spawned
  timedOut,       \* TRUE when the deadline passed before stdout was read
  errPipe,        \* the bytes waiting in the child's stderr pipe
  childLeft,      \* the stderr bytes the child has still to write
  childDone       \* TRUE once the child closed its stdout and exited

syncVars == <<file, srvLen, pc, clientSession, settingsToken, handlers, resp,
              ndisp, observed, retInit, retRestart, retStream, streamPersisted,
              pending, lastPersist, lastReq, exitCause, crashes, damage>>

joinVars == <<ownId, room_member, jpc, spawned, delay, attempts, sleeps>>

pipeVars == <<errPipe, childLeft, childDone>>

msgVars == <<room_state, event, now, mpc, child, buf, reply, sends, uploads,
             spawns, timedOut, pipeVars>>

handlerVars == <<joinVars, msgVars>>

vars == <<syncVars, handlerVars>>

\* ------------------------------------------------------- FullSession, serde

\* serde_json::to_string(&FullSession): sync_token is skipped when None.
to_string(fs) ==
  IF fs.sync_token.some
  THEN JsonFile([user_session |-> fs.user_session, sync_token |-> fs.sync_token.val])
  ELSE JsonFile([user_session |-> fs.user_session])

\* fs::read_to_string: fails when the file does not exist.
read_to_string(f) ==
  IF f.kind = "absent" THEN [ok |-> FALSE] ELSE [ok |-> TRUE, text |-> f]

\* serde_json::from_str::<FullSession>: user_session is required, a missing
\* sync_token is None.
from_str(text) ==
  IF text.kind = "json" /\ "user_session" \in DOMAIN text.obj
  THEN [ok |-> TRUE,
        val |-> [user_session |-> text.obj.user_session,
                 sync_token |-> IF "sync_token" \in DOMAIN text.obj
                                THEN Some(text.obj.sync_token) ELSE None]]
  ELSE [ok |-> FALSE]

WriteOutcomes == {"ok", "err_untouched", "err_truncated"}

\* fs::write(path, text): truncates and rewrites; on an error the old
\* contents are either still there or already cut.
fs_write(f, text, w) ==
  CASE w = "ok" -> [ok |-> TRUE, file |-> text]
    [] w = "err_untouched" -> [ok |-> FALSE, file |-> f]
    [] OTHER -> [ok |-> FALSE, file |-> CorruptFile]

\* A persist that writes the parsed record back without the new token.
persist_without_replace(f, sync_token, w) ==
  LET rd == read_to_string(f) IN
  IF ~rd.ok THEN [ok |-> FALSE, file |-> f] ELSE
  LET parsed == from_str(rd.text) IN
  IF ~parsed.ok THEN [ok |-> FALSE, file |-> f] ELSE
  fs_write(f, to_string(parsed.val), w)

\* persist_sync_token: read, parse, replace the token, serialize, write.
\* The result and the file afterwards.
persist_sync_token(f, sync_token, w) ==
  LET rd == read_to_string(f) IN
  IF ~rd.ok THEN [ok |-> FALSE, file |-> f] ELSE
  LET parsed == from_str(rd.text) IN
  IF ~parsed.ok THEN [ok |-> FALSE, file |-> f] ELSE
  LET full_session == [parsed.val EXCEPT !.sync_token = Some(sync_token)] IN
  fs_write(f, to_string(full_session), w)

\* The ghost record of a persist_sync_token call.
PersistRecord(f, sync_token, r) ==
  [res |-> IF r.ok THEN "ok" ELSE "err", arg |-> sync_token, before |-> f,
   tick |-> 1 - lastPersist.tick]

NoPersist == [res |-> "none", tick |-> 0]

\* ------------------------------------------------------------ the backend

\* What sync_once(token) returns when it succeeds.
SyncResponse(token) ==
  LET from == IF token.some THEN token.val ELSE 0 IN
  [ok |-> TRUE, first |-> from + 1, next_batch |-> srvLen]

RespEvents(r) == IF r.ok THEN r.first..r.next_batch ELSE {}

Request(token, phase) == [token |-> token, phase |-> phase, tick |-> 1 - lastReq.tick]

\* ----------------------------------------------------------------- Init

\* main starts: the record is absent (first run) or was left by an earlier
\* run, without a token or with one.
InitSync ==
  /\ file \in {AbsentFile} \cup
       {to_string([user_session |-> c, sync_token |-> t]) :
          c \in Creds, t \in {None, Some(0)}}
  /\ srvLen = 0
  /\ pc = "boot"
  /\ clientSession = None
  /\ settingsToken = None
  /\ handlers = FALSE
  /\ resp = NoResp
  /\ ndisp = 0
  /\ observed = [e \in Events |-> 0]
  /\ retInit = {}
  /\ retRestart = {}
  /\ retStream = {}
  /\ streamPersisted = {}
  /\ pending = None
  /\ lastPersist = NoPersist
  /\ lastReq = [phase |-> "none", tick |-> 0]
  /\ exitCause = "none"
  /\ crashes = 0
  /\ damage = 0

\* No membership event was handed to on_stripped_member.
NoJoin ==
  /\ ownId = "@bot"
  /\ room_member = [state_key |-> "@bot", membership |-> "invite"]
  /\ jpc = "idle"
  /\ spawned = FALSE
  /\ delay = 0
  /\ attempts = 0
  /\ sleeps = <<>>

\* No message was handed to on_room_message.
NoMessage ==
  /\ room_state = "Joined"
  /\ event = [origin_server_ts |-> 0, msgtype |-> "Text", body |-> <<>>]
  /\ now = 0
  /\ mpc = "idle"
  /\ child = [finish |-> 0, success |-> FALSE, out |-> <<>>, err |-> <<>>]
  /\ buf = <<>>
  /\ reply = None
  /\ sends = <<>>
  /\ uploads = <<>>
  /\ spawns = 0
  /\ timedOut = FALSE
  /\ errPipe = <<>>
  /\ childLeft = <<>>
  /\ childDone = FALSE

Init == InitSync /\ NoJoin /\ NoMessage

\* ----------------------------------------------------------------- main

Exit(cause) ==
  /\ pc' = "exited"
  /\ exitCause' = cause

\* main, the session file exists: restore_session reads and parses it,
\* builds the client and restores the session; then sync is called with the
\* stored token.
MainRestore ==
  /\ pc = "boot"
  /\ file.kind # "absent"
  /\ \E clientOk \in BOOLEAN :
       LET parsed == from_str(read_to_string(file).text) IN
       IF ~parsed.ok
       THEN /\ Exit("restore")
            /\ UNCHANGED <<clientSession, settingsToken>>
       ELSE IF ~clientOk
       THEN /\ Exit("config")
            /\ UNCHANGED <<clientSession, settingsToken>>
       ELSE /\ pc' = "initial"
            /\ clientSession' = Some(parsed.val.user_session)
            /\ settingsToken' = parsed.val.sync_token
            /\ UNCHANGED exitCause
  /\ UNCHANGED <<file, srvLen, handlers, resp, ndisp, observed, retInit, retRestart,
                 retStream, streamPersisted, pending, lastPersist, lastReq,
                 crashes, damage,
                 handlerVars>>

\* main, no session file: login builds the client, logs in and writes the
\* record without a token; then sync is called with no token.
MainLogin ==
  /\ pc = "boot"
  /\ file.kind = "absent"
  /\ \E c \in Creds, out \in {"config", "login"} \cup WriteOutcomes :
       IF out \in {"config", "login"}
       THEN /\ Exit(out)
            /\ UNCHANGED <<file, clientSession>>
       ELSE LET wr == fs_write(file, to_string([user_session |-> c,
                                                sync_token |-> None]), out) IN
            /\ file' = wr.file
            /\ IF wr.ok
               THEN /\ pc' = "initial"
                    /\ clientSession' = Some(c)
                    /\ UNCHANGED exitCause
               ELSE /\ Exit("login")
                    /\ UNCHANGED clientSession
  /\ settingsToken' = None
  /\ UNCHANGED <<srvLen, handlers, resp, ndisp, observed, retInit, retRestart, retStream,
                 streamPersisted, pending, lastPersist, lastReq, crashes,
                 damage,
                 handlerVars>>

\* ----------------------------------------------------------------- sync

\* An initial loop that forgets its cursor when a request fails.
InitialRequestDropToken ==
  /\ pc = "initial"
  /\ lastReq' = Request(settingsToken, "initial")
  /\ \E ok \in BOOLEAN :
       IF ok
       THEN /\ resp' = SyncResponse(settingsToken)
            /\ retInit' = retInit \cup RespEvents(resp')
            /\ retRestart' = IF settingsToken.some
                              THEN retRestart \cup RespEvents(resp')
                              ELSE retRestart
            /\ settingsToken' = Some(resp'.next_batch)
            /\ pending' = Some(resp'.next_batch)
            /\ pc' = "initial_persist"
       ELSE /\ settingsToken' = None
            /\ UNCHANGED <<resp, retInit, retRestart, pending, pc>>
  /\ UNCHANGED <<file, srvLen, clientSession, handlers, ndisp, observed,
                 retStream, streamPersisted, lastPersist, exitCause, crashes,
                 damage,
                 handlerVars>>

\* The initial loop: one sync_once with the given token.  No handler is
\* registered yet, so the events of the response reach no handler.  An
\* error is printed and the same request is made again.
InitialRequest ==
  /\ pc = "initial"
  /\ lastReq' = Request(settingsToken, "initial")
  /\ \E ok \in BOOLEAN :
       IF ok
       THEN /\ resp' = SyncResponse(settingsToken)
            /\ retInit' = retInit \cup RespEvents(resp')
            /\ retRestart' = IF settingsToken.some
                              THEN retRestart \cup RespEvents(resp')
                              ELSE retRestart
            /\ settingsToken' = Some(resp'.next_batch)
            /\ pending' = Some(resp'.next_batch)
            /\ pc' = "initial_persist"
       ELSE UNCHANGED <<resp, retInit, retRestart, settingsToken, pending, pc>>
  /\ UNCHANGED <<file, srvLen, clientSession, handlers, ndisp, observed,
                 retStream, streamPersisted, lastPersist, exitCause, crashes,
                 damage,
                 handlerVars>>

\* persist_sync_token(session_file, response.next_batch).await?; break;
\* then the two handlers are registered.
InitialPersist ==
  /\ pc = "initial_persist"
  /\ \E w \in WriteOutcomes :
       LET r == persist_sync_token(file, resp.next_batch, w) IN
       /\ file' = r.file
       /\ lastPersist' = PersistRecord(file, resp.next_batch, r)
       /\ IF r.ok
          THEN /\ pc' = "streaming"
               /\ handlers' = TRUE
               /\ pending' = None
               /\ UNCHANGED exitCause
          ELSE /\ Exit("persist")
               /\ UNCHANGED <<handlers, pending>>
  /\ resp' = NoResp
  /\ UNCHANGED <<srvLen, clientSession, settingsToken, ndisp, observed,
                 retInit, retRestart, retStream, streamPersisted, lastReq, crashes, damage,
                 handlerVars>>

\* sync_with_result_callback: the next long-poll.  A response is processed
\* by the client (its events go to the handlers) before the callback runs;
\* an error goes to the callback at once.
StreamRequest ==
  /\ pc = "streaming"
  /\ lastReq' = Request(settingsToken, "streaming")
  /\ ndisp' = 0
  /\ \E ok \in BOOLEAN :
       IF ok
       THEN /\ resp' = SyncResponse(settingsToken)
            /\ retStream' = retStream \cup RespEvents(resp')
            /\ settingsToken' = Some(resp'.next_batch)
            /\ pending' = Some(resp'.next_batch)
            /\ pc' = "dispatch"
       ELSE /\ resp' = NoResp
            /\ pc' = "callback"
            /\ UNCHANGED <<retStream, settingsToken, pending>>
  /\ UNCHANGED <<file, srvLen, clientSession, handlers, observed, retInit, retRestart,
                 streamPersisted, lastPersist, exitCause, crashes, damage,
                 handlerVars>>

\* A dispatch that hands over the first event of a response only.
DispatchFirstOnly ==
  /\ pc = "dispatch"
  /\ IF resp.first + ndisp <= resp.next_batch /\ ndisp = 0
     THEN /\ observed' = [observed EXCEPT ![resp.first + ndisp] =
                             IF handlers THEN @ + 1 ELSE @]
          /\ ndisp' = ndisp + 1
          /\ \/ UNCHANGED <<pc, exitCause>>
             \/ /\ handlers
                /\ Exit("panic")
     ELSE /\ pc' = "callback"
          /\ UNCHANGED <<observed, ndisp, exitCause>>
  /\ UNCHANGED <<file, srvLen, clientSession, settingsToken, handlers, resp,
                 retInit, retRestart, retStream, streamPersisted, pending, lastPersist,
                 lastReq, crashes, damage,
                 handlerVars>>

\* The client hands the next event of the response to the handlers, in the
\* order received, and awaits them inside the sync call; after the last one
\* the callback is due.  A handler that panics (one of the unwraps of
\* on_room_message) unwinds through sync and main.
Dispatch ==
  /\ pc = "dispatch"
  /\ IF resp.first + ndisp <= resp.next_batch
     THEN /\ observed' = [observed EXCEPT ![resp.first + ndisp] =
                             IF handlers THEN @ + 1 ELSE @]
          /\ ndisp' = ndisp + 1
          /\ \/ UNCHANGED <<pc, exitCause>>
             \/ /\ handlers
                /\ Exit("panic")
     ELSE /\ pc' = "callback"
          /\ UNCHANGED <<observed, ndisp, exitCause>>
  /\ UNCHANGED <<file, srvLen, clientSession, settingsToken, handlers, resp,
                 retInit, retRestart, retStream, streamPersisted, pending, lastPersist,
                 lastReq, crashes, damage,
                 handlerVars>>

\* A callback that skips the persist when the response holds no event.
CallbackSkipEmpty ==
  /\ pc = "callback"
  /\ IF ~resp.ok
     THEN /\ Exit("request")
          /\ UNCHANGED <<file, lastPersist, streamPersisted, pending>>
     ELSE IF RespEvents(resp) = {}
     THEN /\ pc' = "streaming"
          /\ UNCHANGED <<file, lastPersist, streamPersisted, pending, exitCause>>
     ELSE \E w \in WriteOutcomes :
            LET r == persist_sync_token(file, resp.next_batch, w) IN
            /\ file' = r.file
            /\ lastPersist' = PersistRecord(file, resp.next_batch, r)
            /\ IF r.ok
               THEN /\ pc' = "streaming"
                    /\ streamPersisted' = streamPersisted \cup RespEvents(resp)
                    /\ pending' = None
                    /\ UNCHANGED exitCause
               ELSE /\ Exit("persist")
                    /\ UNCHANGED <<streamPersisted, pending>>
  /\ resp' = NoResp
  /\ UNCHANGED <<srvLen, clientSession, settingsToken, handlers, ndisp,
                 observed, retInit, retRestart, retStream, lastReq, crashes, damage,
                 handlerVars>>

\* A callback that logs a persist failure and continues the loop.
CallbackIgnorePersistError ==
  /\ pc = "callback"
  /\ IF ~resp.ok
     THEN /\ Exit("request")
          /\ UNCHANGED <<file, lastPersist, streamPersisted, pending>>
     ELSE \E w \in WriteOutcomes :
            LET r == persist_sync_token(file, resp.next_batch, w) IN
            /\ file' = r.file
            /\ lastPersist' = PersistRecord(file, resp.next_batch, r)
            /\ pc' = "streaming"
            /\ streamPersisted' = IF r.ok THEN streamPersisted \cup RespEvents(resp)
                                  ELSE streamPersisted
            /\ pending' = IF r.ok THEN None ELSE pending
            /\ UNCHANGED exitCause
  /\ resp' = NoResp
  /\ UNCHANGED <<srvLen, clientSession, settingsToken, handlers, ndisp,
                 observed, retInit, retRestart, retStream, lastReq, crashes, damage,
                 handlerVars>>

\* The callback of sync_with_result_callback: `sync_result?` returns the
\* request error, which ends the loop and sync; otherwise the token is
\* persisted, a failure ends the loop and sync, success continues it.
Callback ==
  /\ pc = "callback"
  /\ IF ~resp.ok
     THEN /\ Exit("request")
          /\ UNCHANGED <<file, lastPersist, streamPersisted, pending>>
     ELSE \E w \in WriteOutcomes :
            LET r == persist_sync_token(file, resp.next_batch, w) IN
            /\ file' = r.file
            /\ lastPersist' = PersistRecord(file, resp.next_batch, r)
            /\ IF r.ok
               THEN /\ pc' = "streaming"
                    /\ streamPersisted' = streamPersisted \cup RespEvents(resp)
                    /\ pending' = None
                    /\ UNCHANGED exitCause
               ELSE /\ Exit("persist")
                    /\ UNCHANGED <<streamPersisted, pending>>
  /\ resp' = NoResp
  /\ UNCHANGED <<srvLen, clientSession, settingsToken, handlers, ndisp,
                 observed, retInit, retRestart, retStream, lastReq, crashes, damage,
                 handlerVars>>

\* ---------------------------------------------------------- environment

\* The backend receives an event.
ServerEvent ==
  /\ srvLen < MaxEvents
  /\ srvLen' = srvLen + 1
  /\ UNCHANGED <<file, pc, clientSession, settingsToken, handlers, resp,
                 ndisp, observed, retInit, retRestart, retStream, streamPersisted,
                 pending, lastPersist, lastReq, exitCause, crashes, damage,
                 handlerVars>>

\* The record is deleted or overwritten with unparseable text from outside.
FileDamage ==
  /\ damage < MaxDamage
  /\ damage' = damage + 1
  /\ file' \in {AbsentFile, CorruptFile}
  /\ UNCHANGED <<srvLen, pc, clientSession, settingsToken, handlers, resp,
                 ndisp, observed, retInit, retRestart, retStream, streamPersisted,
                 pending, lastPersist, lastReq, exitCause, crashes,
                 handlerVars>>

\* The process dies and is started again: everything but the file, the
\* backend and what the handlers already did is lost.
Crash ==
  /\ pc \notin {"boot", "exited"}
  /\ crashes < MaxCrashes
  /\ crashes' = crashes + 1
  /\ pc' = "boot"
  /\ clientSession' = None
  /\ settingsToken' = None
  /\ handlers' = FALSE
  /\ resp' = NoResp
  /\ ndisp' = 0
  /\ pending' = None
  /\ lastPersist' = NoPersist
  /\ UNCHANGED <<file, srvLen, observed, retInit, retRestart, retStream, streamPersisted,
                 lastReq, exitCause, damage,
                 handlerVars>>

\* The process dies inside persist_sync_token and is started again.  The
\* record is rewritten in place: the crash comes before the write (the old
\* record stays), in the middle of it (the file was truncated and holds at
\* most the beginning of the new text), or after it (the new record).
CrashInPersist ==
  /\ pc = "initial_persist" \/ (pc = "callback" /\ resp.ok)
  /\ crashes < MaxCrashes
  /\ crashes' = crashes + 1
  /\ \E w \in WriteOutcomes : file' = persist_sync_token(file, resp.next_batch, w).file
  /\ pc' = "boot"
  /\ clientSession' = None
  /\ settingsToken' = None
  /\ handlers' = FALSE
  /\ resp' = NoResp
  /\ ndisp' = 0
  /\ pending' = None
  /\ lastPersist' = NoPersist
  /\ UNCHANGED <<srvLen, observed, retInit, retRestart, retStream, streamPersisted,
                 lastReq, exitCause, damage,
                 handlerVars>>

\* ------------------------------------------------------ on_stripped_member

InitialDelay == 2
GiveUpDelay == 3600

Users == {"@bot", "@other"}
MembershipStates == {"invite", "join", "leave", "ban", "knock"}

\* The sync engine is not running; a stripped member event of any target and
\* any membership state is handed to on_stripped_member.
InitJoin ==
  /\ InitSync
  /\ file = AbsentFile
  /\ ownId \in Users
  /\ room_member \in [state_key : Users, membership : MembershipStates]
  /\ jpc = "handler"
  /\ spawned = FALSE
  /\ delay = 0
  /\ attempts = 0
  /\ sleeps = <<>>
  /\ NoMessage

\* A handler that spawns the join task whatever the target is.
OnStrippedMemberAnyTarget ==
  /\ jpc = "handler"
  /\ spawned' = TRUE
  /\ delay' = InitialDelay
  /\ jpc' = "join"
  /\ UNCHANGED <<ownId, room_member, attempts, sleeps, syncVars, msgVars>>

\* on_stripped_member: return unless the event's state_key is the client's
\* user id; otherwise spawn the task, which starts with delay = 2.
OnStrippedMember ==
  /\ jpc = "handler"
  /\ IF room_member.state_key # ownId
     THEN /\ jpc' = "returned"
          /\ UNCHANGED <<spawned, delay>>
     ELSE /\ spawned' = TRUE
          /\ delay' = InitialDelay
          /\ jpc' = "join"
  /\ UNCHANGED <<ownId, room_member, attempts, sleeps, syncVars, msgVars>>

\* The loop condition `while let Err(err) = room.join().await`: one join
\* call; success ends the task, a failure enters the loop body.
JoinAttempt ==
  /\ jpc = "join"
  /\ attempts' = attempts + 1
  /\ \E ok \in BOOLEAN : jpc' = IF ok THEN "joined" ELSE "sleep"
  /\ UNCHANGED <<ownId, room_member, spawned, delay, sleeps, syncVars, msgVars>>

\* A loop body that tests the delay before doubling it.
SleepTestThenDouble ==
  /\ jpc = "sleep"
  /\ sleeps' = Append(sleeps, delay)
  /\ IF delay >= GiveUpDelay
     THEN /\ jpc' = "gaveup"
          /\ UNCHANGED delay
     ELSE /\ jpc' = "join"
          /\ delay' = delay * 2
  /\ UNCHANGED <<ownId, room_member, spawned, attempts, syncVars, msgVars>>

\* The loop body: sleep(delay), delay *= 2, break when delay >= 3600.
SleepAndDouble ==
  /\ jpc = "sleep"
  /\ sleeps' = Append(sleeps, delay)
  /\ delay' = delay * 2
  /\ jpc' = IF delay' >= GiveUpDelay THEN "gaveup" ELSE "join"
  /\ UNCHANGED <<ownId, room_member, spawned, attempts, syncVars, msgVars>>

NextJoin ==
  \/ OnStrippedMember
  \/ JoinAttempt
  \/ SleepAndDouble

SpecJoin == InitJoin /\ [][NextJoin]_vars

\* Each join call and each sleep returns: a task that can take a step does.
SpecJoinFair == SpecJoin /\ WF_vars(NextJoin)

\* --------------------------------------------------------- on_room_message

FreshLimit == 5000      \* Duration::from_secs(5), in ms
Deadline == 25000       \* Duration::from_secs(25), in ms

\* Strings and byte buffers are sequences of characters.
Prefix == <<",", "t", "y", "p">>
Whitespace == {" ", "\n"}

Bodies == {<<>>, Prefix, Prefix \o <<" ">>, Prefix \o <<" ", "x">>,
           Prefix \o <<"x">>, <<"t", "y", "p">>, <<"x">> \o Prefix,
           <<",", "t", "y">>, <<" ">> \o Prefix}

OriginTs == 100000
Ages == {-1, 0, 4999, 5000, 6000}

\* str::strip_prefix: the rest after the prefix, or None.
strip_prefix(body, prefix) ==
  IF Len(body) >= Len(prefix) /\ SubSeq(body, 1, Len(prefix)) = prefix
  THEN Some(SubSeq(body, Len(prefix) + 1, Len(body)))
  ELSE None

RECURSIVE trim_start(_)
trim_start(str) ==
  IF str # <<>> /\ Head(str) \in Whitespace THEN trim_start(Tail(str)) ELSE str

RECURSIVE trim_end(_)
trim_end(str) ==
  IF str # <<>> /\ str[Len(str)] \in Whitespace
  THEN trim_end(SubSeq(str, 1, Len(str) - 1)) ELSE str

\* str::trim
trim(str) == trim_end(trim_start(str))

\* SystemTime::duration_since: an error when the other time is later.
duration_since(t, earlier) ==
  IF t >= earlier THEN [ok |-> TRUE, val |-> t - earlier] ELSE [ok |-> FALSE]

\* The gate that tests the remainder for emptiness without trimming it.
QualifyNoTrim(rs, ev, t) ==
  IF rs # "Joined" THEN "ignored"
  ELSE IF ~duration_since(t, ev.origin_server_ts).ok THEN "panic"
  ELSE IF duration_since(t, ev.origin_server_ts).val >= FreshLimit THEN "ignored"
  ELSE IF ev.msgtype # "Text" THEN "ignored"
  ELSE IF ~strip_prefix(ev.body, Prefix).some THEN "ignored"
  ELSE IF strip_prefix(ev.body, Prefix).val = <<>> THEN "instruction"
  ELSE "render"

\* The gate with `>` for `>=` in the freshness test.
QualifyLate(rs, ev, t) ==
  IF rs # "Joined" THEN "ignored"
  ELSE IF ~duration_since(t, ev.origin_server_ts).ok THEN "panic"
  ELSE IF duration_since(t, ev.origin_server_ts).val > FreshLimit THEN "ignored"
  ELSE IF ev.msgtype # "Text" THEN "ignored"
  ELSE IF ~strip_prefix(ev.body, Prefix).some THEN "ignored"
  ELSE IF trim(strip_prefix(ev.body, Prefix).val) = <<>> THEN "instruction"
  ELSE "render"

\* The tests on_room_message makes before it replies or spawns the compiler,
\* in the code's order: room state, freshness (the unwrap panics when the
\* timestamp is later than now), text type, prefix, empty rest.
Qualify(rs, ev, t) ==
  IF rs # "Joined" THEN "ignored"
  ELSE IF ~duration_since(t, ev.origin_server_ts).ok THEN "panic"
  ELSE IF duration_since(t, ev.origin_server_ts).val >= FreshLimit THEN "ignored"
  ELSE IF ev.msgtype # "Text" THEN "ignored"
  ELSE IF ~strip_prefix(ev.body, Prefix).some THEN "ignored"
  ELSE IF trim(strip_prefix(ev.body, Prefix).val) = <<>> THEN "instruction"
  ELSE "render"

\* make_reply_to(&event, ForwardThread::Yes, AddMentions::Yes)
make_reply_to(content) ==
  [content |-> content, in_reply_to |-> "event", forward_thread |-> TRUE,
   add_mentions |-> TRUE]

text_plain(body) == [msgtype |-> "text_plain", body |-> body]

InstructionReply == make_reply_to(text_plain("<text> is needed to typeset"))
TimeoutReply == make_reply_to(text_plain("Your code took too long (>10s) to render"))

\* String::from_utf8_lossy: an invalid byte becomes U+FFFD.
from_utf8_lossy(bytes) ==
  [i \in 1..Len(bytes) |-> IF bytes[i] = "0xFF" THEN "U+FFFD" ELSE bytes[i]]

\* html_escape::encode_safe
EscapeChar(c) ==
  CASE c = "&" -> <<"&", "a", "m", "p", ";">>
    [] c = "<" -> <<"&", "l", "t", ";">>
    [] c = ">" -> <<"&", "g", "t", ";">>
    [] c = "\"" -> <<"&", "q", "u", "o", "t", ";">>
    [] c = "'" -> <<"&", "#", "x", "2", "7", ";">>
    [] c = "/" -> <<"&", "#", "x", "2", "F", ";">>
    [] OTHER -> <<c>>

RECURSIVE encode_safe(_)
encode_safe(str) ==
  IF str = <<>> THEN <<>> ELSE EscapeChar(Head(str)) \o encode_safe(Tail(str))

\* MessageType::text_html(err, "<pre><code ...>{escaped}</code></pre>")
text_html(err) ==
  [msgtype |-> "text_html", body |-> err,
   formatted_body |-> <<"<pre><code class=\"language-typst\">">>
                        \o encode_safe(err) \o <<"</code></pre>">>]

\* A PNG file of the given size; the decoder stops at the end marker.
Dims == {"1", "2", "3"}
PngBytes(w, h) == <<"PNG", w, h, "IEND">>

\* image::load_from_memory, then width() and height().
load_from_memory(bytes) ==
  IF Len(bytes) >= 4 /\ bytes[1] = "PNG" /\ bytes[2] \in Dims /\ bytes[3] \in Dims
     /\ bytes[4] = "IEND"
  THEN [ok |-> TRUE, width |-> bytes[2], height |-> bytes[3]]
  ELSE [ok |-> FALSE]

\* An image message whose size fields are exchanged.
ImageMessageSwapped(uri, width, height) ==
  [msgtype |-> "image", body |-> "", url |-> uri,
   info |-> [width |-> height, height |-> width]]

\* MessageType::Image(ImageMessageEventContent::plain("", uri).info(..))
ImageMessage(uri, width, height) ==
  [msgtype |-> "image", body |-> "", url |-> uri,
   info |-> [width |-> width, height |-> height]]

\* What a compiler run does: when its stdout reaches end-of-file (ms after
\* the read began), its exit status, and what it wrote to each pipe.
Stdouts == {<<>>, PngBytes("2", "3"), <<"x">>}
LongErr == [i \in 1..(PipeCap + 1) |-> "w"]
Stderrs == {<<>>, <<"e", "<">>, LongErr}
ChildRuns == [finish : {100, 30000}, success : BOOLEAN, out : Stdouts, err : Stderrs]

\* A message of any kind is handed to on_room_message; the sync engine and
\* the join task are not running.
InitMsg ==
  /\ InitSync
  /\ file = AbsentFile
  /\ NoJoin
  /\ room_state \in {"Joined", "Invited", "Left"}
  /\ event \in [origin_server_ts : {OriginTs}, msgtype : {"Text", "Image"},
                body : Bodies]
  /\ now \in {OriginTs + a : a \in Ages}
  /\ mpc = "start"
  /\ child = [finish |-> 0, success |-> FALSE, out |-> <<>>, err |-> <<>>]
  /\ buf = <<>>
  /\ reply = None
  /\ sends = <<>>
  /\ uploads = <<>>
  /\ spawns = 0
  /\ timedOut = FALSE
  /\ errPipe = <<>>
  /\ childLeft = <<>>
  /\ childDone = FALSE

\* on_room_message up to the reply or the spawn.
OnRoomMessage ==
  /\ mpc = "start"
  /\ LET q == Qualify(room_state, event, now) IN
     /\ mpc' = CASE q = "ignored" -> "returned"
                 [] q = "panic" -> "panicked"
                 [] q = "instruction" -> "send"
                 [] OTHER -> "spawn"
     /\ reply' = IF q = "instruction" THEN Some(InstructionReply) ELSE reply
  /\ UNCHANGED <<room_state, event, now, child, buf, sends, uploads, spawns,
                 timedOut, pipeVars,
                 syncVars, joinVars>>

\* Command::new("typst") ... .spawn().unwrap()
SpawnChild ==
  /\ mpc = "spawn"
  /\ \/ /\ spawns' = spawns + 1
        /\ child' \in ChildRuns
        /\ childLeft' = child'.err
        /\ errPipe' = <<>>
        /\ childDone' = FALSE
        /\ mpc' = "write_stdin"
     \/ /\ mpc' = "panicked"
        /\ UNCHANGED <<spawns, child, pipeVars>>
  /\ UNCHANGED <<room_state, event, now, buf, reply, sends, uploads, timedOut,
                 syncVars, joinVars>>

\* stdin.write_all(preamble and content).await.unwrap(); drop(stdin)
WriteStdin ==
  /\ mpc = "write_stdin"
  /\ \E ok \in BOOLEAN : mpc' = IF ok THEN "read_stdout" ELSE "panicked"
  /\ UNCHANGED <<room_state, event, now, child, buf, reply, sends, uploads,
                 spawns, timedOut, pipeVars,
                 syncVars, joinVars>>

\* The compiler, once its stdin was closed, writes its diagnostics to
\* stderr; a write to a full pipe blocks until somebody reads from it.
ChildWriteStderr ==
  /\ mpc = "read_stdout"
  /\ ~childDone
  /\ childLeft # <<>>
  /\ Len(errPipe) < PipeCap
  /\ errPipe' = Append(errPipe, Head(childLeft))
  /\ childLeft' = Tail(childLeft)
  /\ UNCHANGED <<room_state, event, now, mpc, child, buf, reply, sends, uploads,
                 spawns, timedOut, childDone, syncVars, joinVars>>

\* The compiler then writes its output to stdout and exits, which closes
\* both pipes.
ChildExit ==
  /\ mpc = "read_stdout"
  /\ ~childDone
  /\ childLeft = <<>>
  /\ childDone' = TRUE
  /\ UNCHANGED <<room_state, event, now, mpc, child, buf, reply, sends, uploads,
                 spawns, timedOut, errPipe, childLeft, syncVars, joinVars>>

\* stdout reached end-of-file before the deadline.
StdoutComplete == childDone /\ child.finish <= Deadline

\* The child cannot go on: stderr is full and nobody reads it while the
\* handler waits for the end of stdout.
ChildStalled == ~childDone /\ childLeft # <<>> /\ Len(errPipe) = PipeCap

\* A read whose timeout result is dropped.
ReadStdoutNoDeadline ==
  /\ mpc = "read_stdout"
  /\ StdoutComplete \/ child.finish > Deadline \/ ChildStalled
  /\ timedOut' = ~StdoutComplete
  /\ buf' = child.out
  /\ mpc' = "read_stderr"
  /\ UNCHANGED <<room_state, event, now, child, reply, sends, uploads, spawns,
                 pipeVars,
                 syncVars, joinVars>>

\* timeout(25 s, stdout.read_to_end(&mut buf)): the read ends when the child
\* closed stdout; when the deadline passes first (the child is slow, or it
\* is blocked on stderr), the timeout reply is due.
ReadStdout ==
  /\ mpc = "read_stdout"
  /\ StdoutComplete \/ child.finish > Deadline \/ ChildStalled
  /\ timedOut' = ~StdoutComplete
  /\ IF timedOut'
     THEN /\ mpc' = "send_timeout"
          /\ UNCHANGED buf
     ELSE /\ buf' = child.out
          /\ mpc' = "read_stderr"
  /\ UNCHANGED <<room_state, event, now, child, reply, sends, uploads, spawns,
                 pipeVars,
                 syncVars, joinVars>>

\* room.send(timeout text).await.unwrap(); return
SendTimeout ==
  /\ mpc = "send_timeout"
  /\ sends' = Append(sends, TimeoutReply)
  /\ \E ok \in BOOLEAN : mpc' = IF ok THEN "returned" ELSE "panicked"
  /\ UNCHANGED <<room_state, event, now, child, buf, reply, uploads, spawns,
                 timedOut, pipeVars,
                 syncVars, joinVars>>

\* stderr.read_to_end(&mut buf).await.unwrap(); child.wait().await.unwrap()
ReadStderr ==
  /\ mpc = "read_stderr"
  /\ \/ /\ buf' = buf \o errPipe
        /\ errPipe' = <<>>
        /\ mpc' = "build"
     \/ /\ mpc' = "panicked"
        /\ UNCHANGED <<buf, errPipe>>
  /\ UNCHANGED <<room_state, event, now, child, reply, sends, uploads, spawns,
                 timedOut, childLeft, childDone, syncVars, joinVars>>

\* The branch on the exit status: the error text as text_html, or the image
\* decoded (unwrap), uploaded (unwrap) and wrapped with its size.
BuildReply ==
  /\ mpc = "build"
  /\ IF ~child.success
     THEN /\ reply' = Some(make_reply_to(text_html(from_utf8_lossy(buf))))
          /\ mpc' = "send"
          /\ UNCHANGED uploads
     ELSE LET img == load_from_memory(buf) IN
          IF ~img.ok
          THEN /\ mpc' = "panicked"
               /\ UNCHANGED <<reply, uploads>>
          ELSE /\ uploads' = Append(uploads, buf)
               /\ \/ /\ reply' = Some(make_reply_to(
                                   ImageMessage(Len(uploads'), img.width, img.height)))
                     /\ mpc' = "send"
                  \/ /\ mpc' = "panicked"
                     /\ UNCHANGED reply
  /\ UNCHANGED <<room_state, event, now, child, buf, sends, spawns, timedOut,
                 pipeVars,
                 syncVars, joinVars>>

\* room.send(reply).await.unwrap()
SendReply ==
  /\ mpc = "send"
  /\ sends' = Append(sends, reply.val)
  /\ reply' = None
  /\ \E ok \in BOOLEAN : mpc' = IF ok THEN "returned" ELSE "panicked"
  /\ UNCHANGED <<room_state, event, now, child, buf, uploads, spawns, timedOut,
                 pipeVars,
                 syncVars, joinVars>>

NextMsg ==
  \/ OnRoomMessage
  \/ SpawnChild
  \/ WriteStdin
  \/ ChildWriteStderr
  \/ ChildExit
  \/ ReadStdout
  \/ SendTimeout
  \/ ReadStderr
  \/ BuildReply
  \/ SendReply

SpecMsg == InitMsg /\ [][NextMsg]_vars

Next ==
  \/ MainRestore
  \/ MainLogin
  \/ InitialRequest
  \/ InitialPersist
  \/ StreamRequest
  \/ Dispatch
  \/ Callback
  \/ ServerEvent
  \/ FileDamage
  \/ Crash
  \/ CrashInPersist

Spec == Init /\ [][Next]_vars

\* ------------------------------------------------------------ properties

\* The cursor stored in a record, when the record parses.
StoredCursor(f) ==
  IF read_to_string(f).ok /\ from_str(f).ok THEN from_str(f).val.sync_token ELSE None

CursorPast(e) == StoredCursor(file).some /\ StoredCursor(file).val >= e

\* C1 as claimed: at-least-once delivery across restarts.  Take an event
\* that a response returned, either to a Streaming long-poll or to the first
\* sync_once of a run that restored its cursor from the record.  Once the
\* stored cursor has moved past it (so no later request returns it again), a
\* handler has observed it.
C1_EveryReturnedEventObserved ==
  \A e \in retRestart \cup retStream : CursorPast(e) => observed[e] >= 1

\* C1 amended: delivery is guaranteed for the Streaming phase only.  Every
\* event of a Streaming response whose cursor was persisted has been observed
\* by the handlers, and an event that only initial sync_once responses
\* returned (the first request of every run, also after a restart) is
\* observed by no handler.
C1_StreamingEventsObserved ==
  /\ \A e \in streamPersisted : observed[e] >= 1
  /\ \A e \in retInit \ retStream : observed[e] = 0

\* C1 witness: after a crash and restart, an event of a persisted Streaming
\* batch was observed and another one, returned by an initial sync only, was
\* skipped with the stored cursor already past it.
C1_Witness ==
  /\ crashes >= 1
  /\ \E e \in streamPersisted : observed[e] >= 1
  /\ \E e \in retInit \ retStream : CursorPast(e)

\* C2: in Streaming the order is dispatch, persist, next request.  A persist
\* call is made only when every event of the response in hand was handed to
\* the handlers and it stores that response's next_batch; a long-poll is
\* issued only when no received cursor is still unpersisted.
C2_DispatchPersistRequest ==
  [][/\ (lastReq' # lastReq /\ lastReq'.phase = "streaming") => pending = None
     /\ (lastPersist' # lastPersist /\ lastPersist'.res # "none" /\ handlers) =>
          /\ resp.ok
          /\ ndisp = Cardinality(RespEvents(resp))
          /\ \A e \in RespEvents(resp) : observed[e] >= 1
          /\ lastPersist'.arg = resp.next_batch
          /\ pending = Some(resp.next_batch)]_vars

\* C2 witness: a Streaming response with an event was dispatched and its
\* cursor persisted, and the loop is about to poll again.
C2_Witness ==
  /\ pc = "streaming"
  /\ lastReq.phase = "streaming"
  /\ lastPersist.res = "ok"
  /\ lastPersist.arg = 2
  /\ observed[2] = 1
  /\ pending = None

\* C3 as claimed: when a Streaming long-poll returned an error, the loop
\* stays in Streaming, the record and the cursor are left alone, and the next
\* request is made with the same cursor.
C3_RequestErrorKeepsStreaming ==
  [][(pc = "callback" /\ ~resp.ok /\ pc' # pc /\ crashes' = crashes) =>
       (pc' = "streaming" /\ file' = file /\ settingsToken' = settingsToken)]_vars

\* C4: a failed persist_sync_token, in the initial sync or in Streaming,
\* makes sync return the error, and after that no request is issued and no
\* event is dispatched.
C4_PersistFailureAborts ==
  /\ [](lastPersist.res = "err" => (pc = "exited" /\ exitCause = "persist"))
  /\ [][pc = "exited" =>
          (pc' = "exited" /\ lastReq' = lastReq /\ observed' = observed)]_vars

\* C4 witness: a persist failed in the Streaming phase and sync returned.
C4_Witness ==
  /\ lastPersist.res = "err"
  /\ handlers
  /\ pc = "exited"

\* C5: a successful persist_sync_token leaves user_session as it was in the
\* record it read and stores exactly the token it was given.
C5_PersistKeepsCredentials ==
  [][(lastPersist' # lastPersist /\ lastPersist'.res = "ok") =>
       /\ from_str(file').ok
       /\ from_str(file').val.user_session = from_str(file).val.user_session
       /\ from_str(file').val.sync_token = Some(lastPersist'.arg)]_vars

\* C5 witness: a record holding cursor 1 was rewritten with cursor 2.
C5_Witness ==
  /\ lastPersist.res = "ok"
  /\ StoredCursor(lastPersist.before) = Some(1)
  /\ lastPersist.arg = 2
  /\ StoredCursor(file) = Some(2)

RECURSIVE Pow2(_)
Pow2(n) == IF n = 0 THEN 1 ELSE 2 * Pow2(n - 1)

\* C6: while joins keep failing the task sleeps 2, 4, 8, ... seconds, one
\* sleep after each failed attempt; no sleep lasts 3600 s or more; once the
\* delay is 3600 or more the task has stopped, and from then on it neither
\* joins nor sleeps.
C6_Backoff ==
  /\ [](/\ \A i \in 1..Len(sleeps) : sleeps[i] = Pow2(i) /\ sleeps[i] < 3600
        /\ delay >= 3600 => jpc = "gaveup"
        /\ jpc \in {"join", "gaveup"} => attempts = Len(sleeps)
        /\ jpc \in {"sleep", "joined"} => attempts = Len(sleeps) + 1)
  /\ [][jpc = "gaveup" =>
          (jpc' = "gaveup" /\ attempts' = attempts /\ sleeps' = sleeps)]_vars

\* C6 witness: every join failed; the task slept 2 .. 2048 s and stopped.
C6_Witness ==
  /\ jpc = "gaveup"
  /\ Len(sleeps) = 11
  /\ sleeps[1] = 2
  /\ sleeps[11] = 2048
  /\ attempts = 11

\* C7: for an event whose state_key is not the client's user id, no task is
\* spawned and no join is attempted, whatever the membership state.
C7_OtherTargetIgnored ==
  room_member.state_key # ownId => (~spawned /\ attempts = 0 /\ sleeps = <<>>)

\* C7 witness: an invitation of somebody else went through the handler.
C7_Witness ==
  /\ room_member.state_key # ownId
  /\ room_member.membership = "invite"
  /\ jpc = "returned"

\* C8 as claimed: a join is attempted only for an event that targets the
\* client's user id and whose membership state is invite.
C8_OnlyInvitationsJoined ==
  attempts > 0 => (room_member.state_key = ownId /\ room_member.membership = "invite")

\* C9: on_room_message spawns the compiler or sends a reply only for an
\* event in a Joined room, stamped less than 5 s before now, of type text,
\* whose body begins with ",typ".
C9_QualificationGate ==
  (spawns > 0 \/ sends # <<>>) =>
    /\ room_state = "Joined"
    /\ now - event.origin_server_ts < 5000
    /\ event.msgtype = "Text"
    /\ Len(event.body) >= 4
    /\ \A i \in 1..4 : event.body[i] = Prefix[i]

\* C9 witness: a qualifying message was rendered and answered.
C9_Witness ==
  /\ mpc = "returned"
  /\ spawns = 1
  /\ Len(sends) = 1
  /\ now - event.origin_server_ts = 4999

\* C10: when the deadline passed before the read of stdout completed, the
\* only reply ever sent for the message is the timeout text, threaded to the
\* event; nothing is uploaded; the handler ends having sent it once.
C10_TimeoutReplyOnly ==
  /\ [](timedOut =>
         /\ uploads = <<>>
         /\ sends \in {<<>>, <<TimeoutReply>>}
         /\ mpc \in {"returned", "panicked"} => sends = <<TimeoutReply>>)
  /\ [][(mpc \in {"returned", "panicked"}) =>
          (sends' = sends /\ uploads' = uploads)]_vars

\* C10 witness: a compiler that would have exited successfully with an
\* image ran past the deadline and the handler returned.
C10_Witness ==
  /\ timedOut
  /\ child.success
  /\ child.out = PngBytes("2", "3")
  /\ mpc = "returned"
  /\ sends = <<TimeoutReply>>

\* C11 as claimed: when the compiler exits with a non-success status within
\* the deadline, having written the diagnostic text T (of any length) to
\* stderr, the single reply is the error message whose plain body is T and
\* whose formatted body is the escaped T in the code markup; nothing is
\* uploaded.
C11_ErrorReply ==
  (mpc = "returned" /\ spawns = 1 /\ ~child.success
     /\ child.finish <= Deadline /\ child.out = <<>>) =>
    /\ uploads = <<>>
    /\ Len(sends) = 1
    /\ sends[1].in_reply_to = "event"
    /\ sends[1].content.msgtype = "text_html"
    /\ sends[1].content.body = child.err
    /\ sends[1].content.formatted_body =
         <<"<pre><code class=\"language-typst\">">> \o encode_safe(child.err)
           \o <<"</code></pre>">>

\* C12: when the compiler exits successfully before the deadline passed and
\* the handler returns, its stdout was a valid image of W x H, exactly one
\* upload was made and exactly one reply was sent: an image message of
\* width W and height H that refers to that upload, threaded to the event.
C12_ImageReply ==
  (mpc = "returned" /\ spawns = 1 /\ ~timedOut /\ child.success) =>
    /\ load_from_memory(child.out).ok
    /\ Len(uploads) = 1
    /\ Len(sends) = 1
    /\ sends[1].in_reply_to = "event"
    /\ sends[1].forward_thread
    /\ sends[1].content.msgtype = "image"
    /\ sends[1].content.url = 1
    /\ sends[1].content.info.width = load_from_memory(child.out).width
    /\ sends[1].content.info.height = load_from_memory(child.out).height

\* C12 witness: a 2 x 3 image was rendered in time, uploaded and sent.
C12_Witness ==
  /\ mpc = "returned"
  /\ ~timedOut
  /\ child.success
  /\ child.finish <= Deadline
  /\ child.out = PngBytes("2", "3")
  /\ Len(uploads) = 1
  /\ Len(sends) = 1
  /\ sends[1].content.info = [width |-> "2", height |-> "3"]

\* C13 as claimed: a render failure inside a handler invocation ends that
\* invocation only; the process never terminates because of it, so it ends
\* only for a failed restore, client configuration, login, request or
\* persist.
C13_HandlerFailureIsolated ==
  pc = "exited" => exitCause # "panic"

\* C14: the initial sync never advances on an error.  Every initial request
\* carries the cursor sync was given; a failed one changes neither that
\* cursor nor the record, persists nothing and registers no handler, so the
\* retry is the same request.  No handler is registered before Streaming.
\* Streaming is entered from the initial loop only by a successful write of
\* the next_batch of a successful response, and the first Streaming request
\* carries exactly that cursor.
C14_InitialSyncNeverAdvancesOnError ==
  /\ [](pc \in {"initial", "initial_persist"} => ~handlers)
  /\ [][(lastReq' # lastReq /\ lastReq'.phase = "initial") =>
          /\ pc = "initial"
          /\ lastReq'.token = settingsToken
          /\ pc' = "initial" =>
                /\ settingsToken' = settingsToken
                /\ file' = file
                /\ lastPersist' = lastPersist
                /\ handlers' = FALSE
          /\ pc' # "initial" => (pc' = "initial_persist" /\ resp'.ok)]_vars
  /\ [][(pc = "initial_persist" /\ pc' = "streaming") =>
          /\ resp.ok
          /\ lastPersist'.res = "ok"
          /\ lastPersist'.arg = resp.next_batch
          /\ StoredCursor(file') = Some(resp.next_batch)
          /\ settingsToken' = Some(resp.next_batch)]_vars
  /\ [][(pc' = "streaming" /\ pc \in {"boot", "initial"}) => FALSE]_vars
  /\ [][(lastReq' # lastReq /\ lastReq'.phase = "streaming"
            /\ lastReq.phase # "streaming") =>
          /\ lastPersist.res = "ok"
          /\ lastReq'.token = Some(lastPersist.arg)]_vars

\* C14 witness: in one run, an initial request failed, was made again,
\* succeeded, its cursor was written and the first Streaming request was
\* made with it.
C14_Witness ==
  /\ crashes = 0
  /\ pc = "dispatch"
  /\ lastReq.phase = "streaming"
  /\ lastReq.tick = 1
  /\ lastPersist.res = "ok"
  /\ lastPersist.tick = 1
  /\ lastReq.token = Some(lastPersist.arg)
  /\ retStream = RespEvents(resp)
  /\ streamPersisted = {}

\* C15 as claimed: the freshness gate passes in both directions.  A text
\* message in a Joined room that begins with ",typ" and is stamped less than
\* 5 s before or after the local clock passes the gate, and the handler goes
\* on without failing.
C15_FreshEitherDirection ==
  [][(/\ mpc = "start"
      /\ mpc' # "start"
      /\ room_state = "Joined"
      /\ now - event.origin_server_ts < FreshLimit
      /\ event.origin_server_ts - now < FreshLimit
      /\ event.msgtype = "Text"
      /\ strip_prefix(event.body, Prefix).some) =>
       mpc' \in {"spawn", "send"}]_vars

\* C16 as claimed: what is uploaded is exactly the bytes the compiler wrote
\* to stdout, whatever it wrote to stderr.
C16_UploadIsStdout ==
  \A i \in 1..Len(uploads) : uploads[i] = child.out

\* C17: for a text message in a Joined room that passes the freshness gate
\* and whose body is ",typ" followed by nothing or by whitespace only, the
\* handler never spawns the compiler and never uploads; the only reply it
\* ever sends is the instructional text, threaded to the event, and it has
\* sent it exactly once when it ends.
C17_EmptyBodyInstruction ==
  (/\ mpc # "start"
   /\ room_state = "Joined"
   /\ now - event.origin_server_ts >= 0
   /\ now - event.origin_server_ts < FreshLimit
   /\ event.msgtype = "Text"
   /\ Len(event.body) >= 4
   /\ \A i \in 1..Len(event.body) :
        IF i <= 4 THEN event.body[i] = Prefix[i] ELSE event.body[i] \in Whitespace) =>
    /\ spawns = 0
    /\ uploads = <<>>
    /\ mpc \in {"send", "returned", "panicked"}
    /\ Len(sends) = IF mpc = "send" THEN 0 ELSE 1
    /\ \A i \in 1..Len(sends) :
         /\ sends[i].content = [msgtype |-> "text_plain",
                                body |-> "<text> is needed to typeset"]
         /\ sends[i].in_reply_to = "event"
         /\ sends[i].forward_thread

\* C17 witness: ",typ " was answered with the instructional text.
C17_Witness ==
  /\ mpc = "returned"
  /\ room_state = "Joined"
  /\ event.msgtype = "Text"
  /\ event.body = Prefix \o <<" ">>
  /\ now - event.origin_server_ts = 0
  /\ sends = <<InstructionReply>>
  /\ spawns = 0

\* C18 as claimed: reading stdout to its end before stderr never stalls the
\* compiler.  A compiler that would close stdout before the deadline,
\* whatever it writes to stderr first, is read to completion: the deadline
\* never passes for it and it is never answered with the timeout reply.
C18_SequentialDrainNeverStalls ==
  (spawns = 1 /\ child.finish <= Deadline) =>
    /\ ~timedOut
    /\ TimeoutReply \notin {sends[i] : i \in 1..Len(sends)}

\* C19 as claimed: the task makes at most 11 failed join attempts, and every
\* sleep it performs is followed by another join attempt.
C19_EverySleepRetried ==
  /\ [](attempts <= 11)
  /\ [][(jpc = "sleep" /\ jpc' # "sleep") => jpc' = "join"]_vars

\* C19, amended: every auto-join task terminates when each join call and
\* each sleep returns.  It ends when a join attempt succeeds, which is one of
\* the first 11, or after exactly 11 failed attempts and 11 sleeps.  Each of
\* the first 10 sleeps is followed by another join attempt; the 11th sleep
\* (2048 s) is followed by giving up, without another attempt.
C19_JoinTaskTerminates ==
  /\ <>(jpc \in {"returned", "joined", "gaveup"})
  /\ [](/\ attempts <= 11
        /\ Len(sleeps) <= 11
        /\ jpc = "joined" => attempts = Len(sleeps) + 1
        /\ jpc = "gaveup" =>
             (attempts = 11 /\ Len(sleeps) = 11 /\ sleeps[11] = 2048))
  /\ [][(jpc = "sleep" /\ jpc' # "sleep") =>
          jpc' = IF Len(sleeps) < 10 THEN "join" ELSE "gaveup"]_vars
  /\ [][jpc = "join" => (attempts' = attempts + 1 /\ sleeps' = sleeps)]_vars
  /\ [][(jpc \in {"returned", "joined", "gaveup"}) => jpc' = jpc]_vars

\* C19 witness: the 11th attempt failed, the task slept 2048 s, doubled the
\* delay to 4096 and ended without a 12th attempt.
C19_Witness ==
  /\ jpc = "gaveup"
  /\ delay = 4096
  /\ attempts = Len(sleeps)
  /\ sleeps[Len(sleeps)] = 2048

\* C20 as claimed: a crash of the process, at any point of
\* persist_sync_token included, leaves a parseable record as it was or
\* replaced by the complete new record; never a record that exists and
\* cannot be parsed.
C20_CrashLeavesCompleteRecord ==
  [][(crashes' # crashes /\ file.kind = "json") =>
       \/ file' = file
       \/ /\ resp.ok
          /\ file' = persist_sync_token(file, resp.next_batch, "ok").file]_vars

====
